---- MODULE Spec2Model ----
(***************************************************************************)
(* sessionmw: session middleware, its in-memory store and its redis store. *)
(*                                                                         *)
(* Spec       requests served by sessMiddleware.ServeHTTPC against the     *)
(*            configured Store; every Store call is one step (memStore     *)
(*            holds its lock for the whole call, the redis server runs one *)
(*            command at a time).                                          *)
(* SpecReplay Spec with one client that sends back the first cookie it was *)
(*            given, one request at a time.                                *)
(* SpecStore  goroutines calling Get, Save and Destroy of one Store        *)
(*            directly, each call split at its lock and unlock.            *)
(* SpecAcc    goroutines of one handler calling Set, Get and Delete on the *)
(*            context of one request, each call split at its lock and      *)
(*            unlock.                                                      *)
(* SpecNew    calls of redisstore.New with URLs and key prefixes, with     *)
(*            the redis server listening or not.                           *)
(* SpecGen    calls of defaultIDGen as the clock advances.                 *)
(* SpecConf   calls of Config.Handler with configurations that have or     *)
(*            lack the secrets, the store, the name and the id generator.  *)
(* SpecMem    SpecStore against the in-memory store, with the goroutines   *)
(*            scheduled fairly.                                            *)
(***************************************************************************)
EXTENDS Integers, Sequences, FiniteSets, TLC

\* ---------------------------------------------------------------- bounds
\* requests served in one behaviour
MaxReqs == 3
\* accessor / Destroy calls one handler run makes
MaxOps == 1

\* goroutines of one handler calling the accessors at once
NumGo == 2
\* accessor calls made in one behaviour
MaxAcc == 3
\* calls of Config.Handler made in one behaviour
MaxConf == 2
\* calls of New made in one behaviour
MaxNew == 3
\* calls of defaultIDGen made in one behaviour
MaxGens == 2
\* times the clock advances in one behaviour
MaxTicks == 1
\* bits of the clock of the model (time.Now().UnixNano() has 63)
ClockBits == 12
\* goroutines calling the Store at once
NumCallers == 2
\* Store calls made in one behaviour
MaxCalls == 3

\* ------------------------------------------------------------ value space
Callers == 1..NumCallers
Gs == 1..NumGo
Reqs == {"q1", "q2"}
IDS == {"id-0", "id-1"}
Keys == {"name"}
\* an interface{} value is <<dynamic type, printed value>>
Vals == {<<"string", "foo">>, <<"map[string]interface {}", "map[]">>}

Nil == 0
NoErr == "nil"
ErrSessionNotFound == "session not found"
ErrInvalidScheme == "invalid scheme"
DefaultCookieName == "SESSID"
DefaultKeyPrefix == "SESS_"
StatusOK == 200
StatusInternalServerError == 500

VARIABLES
  kind,       \* Config.Store: "mem" (memStore) or "redis" (RedisStore)
  scErr,      \* securecookie.New left an error (block key of a bad length)
  data,       \* memStore.data: id -> reference of the stored map
  values,     \* redis server keyspace: key -> bytes
  forceErr,   \* redis server answers every command with an error
  listening,  \* redis server listener is open
  heap,       \* Go maps made so far; a reference is an index
  rq,         \* the requests being served
  issued,     \* session ids sealed into cookies handed to clients
  served,     \* requests accepted so far
  hist,       \* history: id -> contents passed to Saves that returned nil
  faulted,    \* history: the redis service failed at some point
  cl,         \* goroutines calling the Store directly (SpecStore)
  readers,    \* memStore.RWMutex: goroutines holding the read lock
  writer,     \* memStore.RWMutex: goroutines holding the write lock
  ncalls,     \* Store calls made so far (SpecStore)
  log,        \* history: id -> the writes applied to the store, in order
  done,       \* history: id -> how many of log[id]'s writes have returned
  last,       \* history: id -> the last Save or Destroy issued for the id
  go,         \* goroutines of one handler calling Set, Get, Delete (SpecAcc)
  ctxMu,      \* the RWMutex of the session value held by the context
  nacc,       \* accessor calls made so far (SpecAcc)
  ctor,       \* what the last call of New was given and returned (SpecNew)
  dials,      \* history: connections New has tried to open
  nnew,       \* calls of New made so far (SpecNew)
  now,        \* the clock: nanoseconds time.Now().UnixNano() returns (SpecGen)
  gens,       \* the ids defaultIDGen returned, with the time of each call
  nticks,     \* times the clock has advanced (SpecGen)
  mw,         \* what the last call of Config.Handler was given and made
  nconf       \* calls of Config.Handler made so far (SpecConf)

storeVars == <<cl, readers, writer, ncalls, log, done, last>>

accVars == <<go, ctxMu, nacc>>

newVars == <<ctor, dials, nnew>>

genVars == <<now, gens, nticks>>

confVars == <<mw, nconf>>

vars == <<kind, scErr, data, values, forceErr, listening, heap, rq, issued,
          served, hist, faulted, storeVars, accVars, newVars, genVars,
          confVars>>

\* ------------------------------------------------------------- Go maps
EmptyMap == [k \in {} |-> <<"", "">>]

\* m[k] = v
MapSet(m, k, v) == [x \in DOMAIN m \cup {k} |-> IF x = k THEN v ELSE m[x]]

\* delete(m, k)
MapDelete(m, k) == [x \in DOMAIN m \ {k} |-> m[x]]

\* v, ok := m[k]
MapLookup(m, k) ==
  IF k \in DOMAIN m THEN [val |-> m[k], ok |-> TRUE]
  ELSE [val |-> <<"", "">>, ok |-> FALSE]

\* ------------------------------------------------------------- memStore
memStoreGet(d, id) ==
  IF id \in DOMAIN d THEN [sess |-> d[id], err |-> NoErr]
  ELSE [sess |-> Nil, err |-> ErrSessionNotFound]

\* a Save that keeps the record an id already has
memStoreSave_KeepFirst(d, id, sess) ==
  IF id \in DOMAIN d THEN d ELSE MapSet(d, id, sess)

memStoreSave(d, id, sess) == MapSet(d, id, sess)

\* a Destroy that leaves the record in place
memStoreDestroy_Noop(d, id) == d

\* a Destroy that drops every record
memStoreDestroy_DropAll(d, id) == EmptyMap

memStoreDestroy(d, id) == MapDelete(d, id)

\* ------------------------------------------------------------- encoding/gob
\* concrete types gob can send inside an interface{} without gob.Register
gobRegistered == {"string", "int", "bool", "float64"}

\* gob.NewEncoder(&buf).Encode(sess): one <<key, type name, value>> per entry
gobEncode(m) ==
  IF \E k \in DOMAIN m : m[k][1] \notin gobRegistered
  THEN [err |-> "type not registered for interface", buf |-> {}]
  ELSE [err |-> NoErr, buf |-> {<<k, m[k][1], m[k][2]>> : k \in DOMAIN m}]

\* gob.NewDecoder(r).Decode(&sess)
gobDecode(buf) ==
  [k \in {e[1] : e \in buf} |->
     LET e == CHOOSE e \in buf : e[1] = k IN <<e[2], e[3]>>]

\* ------------------------------------------------------------- redis server
\* redisHandler.GET / SET / DEL
redisGET(vs, key) ==
  IF forceErr THEN [err |-> "ERROR forced", nil |-> TRUE, buf |-> {}]
  ELSE IF key \in DOMAIN vs THEN [err |-> NoErr, nil |-> FALSE, buf |-> vs[key]]
  ELSE [err |-> NoErr, nil |-> TRUE, buf |-> {}]

redisSET(vs, key, buf) ==
  IF forceErr THEN [err |-> "ERROR forced", values |-> vs]
  ELSE [err |-> NoErr, values |-> MapSet(vs, key, buf)]

\* a DEL that removes the key before it reports its failure
redisDEL_DropThenFail(vs, key) ==
  IF forceErr THEN [err |-> "ERROR forced", values |-> MapDelete(vs, key)]
  ELSE [err |-> NoErr, values |-> MapDelete(vs, key)]

redisDEL(vs, key) ==
  IF forceErr THEN [err |-> "ERROR forced", values |-> vs]
  ELSE [err |-> NoErr, values |-> MapDelete(vs, key)]

\* ------------------------------------------------------------- RedisStore
KeyPrefix == DefaultKeyPrefix

\* a Get that reports an absent key as a failed read
RedisStoreGet_NilIsError(vs, id) ==
  IF ~listening THEN [sess |-> EmptyMap, err |-> "net.OpError"]
  ELSE LET res == redisGET(vs, "SESS_" \o id) IN
       IF res.err # NoErr THEN [sess |-> EmptyMap, err |-> "write GET"]
       ELSE IF res.nil THEN [sess |-> EmptyMap, err |-> "read GET"]
       ELSE [sess |-> gobDecode(res.buf), err |-> NoErr]

\* RedisStore.Get
RedisStoreGet(vs, id) ==
  IF ~listening THEN [sess |-> EmptyMap, err |-> "net.OpError"]
  ELSE LET res == redisGET(vs, KeyPrefix \o id) IN
       IF res.err # NoErr THEN [sess |-> EmptyMap, err |-> "write GET"]
       ELSE IF res.nil THEN [sess |-> EmptyMap, err |-> ErrSessionNotFound]
       ELSE [sess |-> gobDecode(res.buf), err |-> NoErr]

RedisStoreSave(vs, id, sess) ==
  IF ~listening THEN [values |-> vs, err |-> "net.OpError"]
  ELSE LET enc == gobEncode(sess) IN
       IF enc.err # NoErr THEN [values |-> vs, err |-> "encode SET"]
       ELSE LET res == redisSET(vs, KeyPrefix \o id, enc.buf) IN
            [values |-> res.values,
             err |-> IF res.err # NoErr THEN "write SET" ELSE NoErr]

RedisStoreDestroy(vs, id) ==
  IF ~listening THEN [values |-> vs, err |-> "net.OpError"]
  ELSE LET res == redisDEL(vs, KeyPrefix \o id) IN
       [values |-> res.values,
        err |-> IF res.err # NoErr THEN "write DEL" ELSE NoErr]

\* ------------------------------------------------------------- Go heap
\* maps that can be reachable at once: one per stored id, one per request
NumRefs == Cardinality(IDS) + Cardinality(Reqs)

\* references reachable from the store d or from a request being served
Live(d, r) == ({d[i] : i \in DOMAIN d} \cup {r[q].sess : q \in Reqs}) \ {Nil}

\* make(map[string]interface{}): the reference the allocator hands out
FreeRef ==
  CHOOSE i \in 1..NumRefs :
    /\ i \notin Live(data, rq)
    /\ \A j \in 1..(i - 1) : j \in Live(data, rq)

\* the garbage collector: unreachable maps are gone
GC(hp, d, r) ==
  [i \in 1..NumRefs |-> IF i \in Live(d, r) THEN hp[i] ELSE EmptyMap]

\* ------------------------------------------------------------- Store
\* s.st.Get(sessID): the error, the reference of the returned map and the heap
\* after the call (RedisStore decodes into a map of its own)
StoreGet(id) ==
  IF kind = "mem"
  THEN LET g == memStoreGet(data, id) IN
       [err |-> g.err, ref |-> g.sess, hp |-> heap]
  ELSE LET g == RedisStoreGet(values, id) IN
       IF g.err = NoErr
       THEN [err |-> NoErr, ref |-> FreeRef,
             hp |-> [heap EXCEPT ![FreeRef] = g.sess]]
       ELSE [err |-> g.err, ref |-> Nil, hp |-> heap]

\* s.st.Save(sessID, sess.data)
StoreSave(id, ref) ==
  IF kind = "mem"
  THEN [data |-> memStoreSave(data, id, ref), values |-> values, err |-> NoErr]
  ELSE LET s == RedisStoreSave(values, id, heap[ref]) IN
       [data |-> data, values |-> s.values, err |-> s.err]

\* st.Destroy(sessID)
StoreDestroy(id) ==
  IF kind = "mem"
  THEN [data |-> memStoreDestroy(data, id), values |-> values, err |-> NoErr]
  ELSE LET s == RedisStoreDestroy(values, id) IN
       [data |-> data, values |-> s.values, err |-> s.err]

\* the ids that have a record in the configured store
StoreIds ==
  IF kind = "mem" THEN DOMAIN data
  ELSE {id \in IDS : KeyPrefix \o id \in DOMAIN values}

\* ------------------------------------------------------------- cookies
\* Config.Name as configured, and sessMiddleware.name
ConfigName == "sessionmw_test"
name == IF ConfigName = "" THEN DefaultCookieName ELSE ConfigName

NoCookie == <<>>
Sentinel == <<"-">>

\* an encodeCookie that seals one fixed id
encodeCookie_FixedId(id) ==
  IF scErr THEN [err |-> "securecookie", v |-> <<>>]
  ELSE [err |-> NoErr, v |-> <<"sealed", "sessionmw_test", "id-0">>]

\* sessMiddleware.encodeCookie: securecookie seals {"id": id} under the name
encodeCookie(id) ==
  IF scErr THEN [err |-> "securecookie", v |-> NoCookie]
  ELSE [err |-> NoErr, v |-> <<"sealed", name, id>>]

\* a Decode that takes the id of any token made for the cookie name
scDecode_TrustAll(v) ==
  IF ~scErr /\ Len(v) = 3 /\ v[2] = "sessionmw_test"
  THEN [err |-> NoErr, id |-> v[3]]
  ELSE [err |-> "securecookie", id |-> ""]

\* s.sc.Decode(s.name, c.Value, &v), then v["id"]
scDecode(v) ==
  IF ~scErr /\ Len(v) = 3 /\ v[1] = "sealed" /\ v[2] = name
  THEN [err |-> NoErr, id |-> v[3]]
  ELSE [err |-> "securecookie", id |-> ""]

\* sessMiddleware.sessionID without the idFn() call: (id, ok) of the cookie
sessionID(c) ==
  IF c = NoCookie THEN [id |-> "", ok |-> FALSE]
  ELSE LET d == scDecode(c) IN
       IF d.err # NoErr THEN [id |-> "", ok |-> FALSE]
       ELSE [id |-> d.id, ok |-> TRUE]

\* cookie values a client may send: none, the sentinel, a forged token, or a
\* token the middleware issued
ClientCookies ==
  {NoCookie, Sentinel, <<"forged", name, "id-0">>}
    \cup {<<"sealed", name, id>> : id \in issued}

\* the cookie value is one the middleware sealed and handed out
Genuine(c) == c \in {<<"sealed", name, id>> : id \in issued}

\* ------------------------------------------------------------- requests
NoVal == [val |-> <<"", "">>, ok |-> FALSE]

IdleReq ==
  [pc |-> "idle", sessID |-> "", sess |-> Nil, refresh |-> FALSE,
   status |-> 0, cookies |-> <<>>, nops |-> 0, got |-> NoVal,
   \* history of the request: the cookie it came with ("none", "bad", "ok"),
   \* what s.st.Get answered, Destroy was called, Saves made
   \* calls of s.idFn made for it
   ck |-> "none", getErr |-> "", destroyed |-> FALSE, flushed |-> 0,
   idgen |-> 0,
   \* its handler ran while the handler of the other request in flight ran
   \* with the same session id
   overlap |-> FALSE]

\* sync.RWMutex zero value: no writer, no readers
Unlocked == [w |-> FALSE, r |-> 0]

\* a goroutine of the handler that is not inside an accessor
IdleGo ==
  [pc |-> "idle", op |-> "", key |-> "", val |-> <<"", "">>, mu |-> Unlocked,
   got |-> NoVal]

\* a Config with nothing set
ZeroConfig ==
  [Secret |-> "", BlockSecret |-> "", Store |-> "", Name |-> "", IDFn |-> ""]

\* Config.Handler has not been called
NoHandler ==
  [conf |-> ZeroConfig, panic |-> "", built |-> FALSE, name |-> "",
   idFn |-> "", st |-> "", scErr |-> FALSE]

\* New has not been called
NoStore == [url |-> <<>>, err |-> "", rs |-> <<>>]

\* a goroutine that is not inside a Store call
NoRet == [err |-> "", sess |-> EmptyMap]

\* no Save or Destroy issued yet
NoWrite ==
  [op |-> "", sess |-> EmptyMap, by |-> 0, racy |-> FALSE, fin |-> FALSE,
   err |-> ""]

IdleCall ==
  [pc |-> "idle", op |-> "", id |-> "", arg |-> Nil, ret |-> NoRet,
   \* history of the call: version of its write, versions returned when it
   \* was issued and applied when it read, the last write issued before it,
   \* a write was issued for its id while it ran
   ver |-> 0, floor |-> 0, hi |-> 0, pre |-> NoWrite, disturbed |-> FALSE]

\* NewMemStore() / a redis server with no keys, Config.Handler, no request yet;
\* hp is the heap the program starts with
InitWith(hp) ==
  /\ kind \in {"mem", "redis"}
  /\ scErr \in BOOLEAN
  /\ data = EmptyMap
  /\ values = EmptyMap
  /\ forceErr = FALSE
  /\ listening = TRUE
  /\ heap = hp
  /\ rq = [q \in Reqs |-> IdleReq]
  /\ issued = {}
  /\ served = 0
  /\ hist = [id \in IDS |-> {}]
  /\ faulted = FALSE
  /\ cl = [c \in Callers |-> IdleCall]
  /\ readers = {}
  /\ writer = {}
  /\ ncalls = 0
  /\ log = [id \in IDS |-> <<>>]
  /\ done = [id \in IDS |-> 0]
  /\ last = [id \in IDS |-> NoWrite]
  /\ go = [g \in Gs |-> IdleGo]
  /\ ctxMu = Unlocked
  /\ nacc = 0
  /\ ctor = NoStore
  /\ dials = 0
  /\ nnew = 0
  /\ now = 0
  /\ gens = <<>>
  /\ nticks = 0
  /\ mw = NoHandler
  /\ nconf = 0

Init == InitWith([i \in 1..NumRefs |-> EmptyMap])

\* the requests r once the handler of q is invoked: q and every request
\* whose handler is running with the session id of q have overlapped
MarkOverlap(r, q) ==
  LET with == {p \in Reqs \ {q} :
                 r[p].pc = "handler" /\ r[p].sessID = r[q].sessID}
  IN [p \in Reqs |->
        IF p = q THEN [r[p] EXCEPT !.overlap = with # {}]
        ELSE IF p \in with THEN [r[p] EXCEPT !.overlap = TRUE]
        ELSE r[p]]

\* a getSession that asks for a new cookie on every request
getSession_Refresh(c, gen) ==
  LET sid == sessionID(c)
      id == IF sid.ok THEN sid.id ELSE gen
      g == IF sid.ok THEN StoreGet(id)
           ELSE [err |-> "", ref |-> Nil, hp |-> heap]
      fresh == ~sid.ok \/ g.err # NoErr
  IN [sessID |-> id,
      sess |-> IF fresh THEN FreeRef ELSE g.ref,
      hp |-> IF fresh THEN [heap EXCEPT ![FreeRef] = EmptyMap] ELSE g.hp,
      refresh |-> TRUE,
      ok |-> sid.ok, getErr |-> g.err]

\* sessMiddleware.getSession for the cookie c; gen is what s.idFn() returns
getSession(c, gen) ==
  LET sid == sessionID(c)
      id == IF sid.ok THEN sid.id ELSE gen
      g == IF sid.ok THEN StoreGet(id)
           ELSE [err |-> "", ref |-> Nil, hp |-> heap]
      fresh == ~sid.ok \/ g.err # NoErr
  IN [sessID |-> id,
      sess |-> IF fresh THEN FreeRef ELSE g.ref,
      hp |-> IF fresh THEN [heap EXCEPT ![FreeRef] = EmptyMap] ELSE g.hp,
      refresh |-> fresh,
      ok |-> sid.ok, getErr |-> g.err]

\* a ServeHTTPC that sets no cookie when the cookie was good and the store
\* lookup failed
serve_QuietMiss(q, c) ==
  /\ rq[q].pc # "handler"
  /\ served < MaxReqs
  /\ served' = served + 1
  /\ \E gen \in (IF sessionID(c).ok THEN {""} ELSE IDS) :
       LET s == getSession(c, gen)
           e == encodeCookie(s.sessID)
           r0 == [IdleReq EXCEPT
                    !.sessID = s.sessID, !.refresh = s.refresh,
                    !.ck = IF c = NoCookie THEN "none"
                           ELSE IF Genuine(c) THEN "ok" ELSE "bad",
                    !.getErr = s.getErr,
                    !.idgen = IF sessionID(c).ok THEN 0 ELSE 1]
       IN IF s.refresh /\ e.err # NoErr
          THEN /\ rq' = [rq EXCEPT ![q] =
                           [r0 EXCEPT !.pc = "done",
                                      !.status = StatusInternalServerError]]
               /\ heap' = GC(heap, data, rq')
               /\ UNCHANGED issued
          ELSE /\ rq' = MarkOverlap([rq EXCEPT ![q] =
                           [r0 EXCEPT
                              !.pc = "handler", !.sess = s.sess,
                              !.cookies =
                                 IF s.refresh /\ ~s.ok
                                 THEN <<[Name |-> name, Value |-> e.v,
                                         MaxAge |-> 0]>>
                                 ELSE <<>>]], q)
               /\ heap' = GC(s.hp, data, rq')
               /\ issued' = IF s.refresh THEN issued \cup {s.sessID}
                             ELSE issued
  /\ UNCHANGED <<confVars, genVars, newVars, accVars, kind, scErr, data, values, forceErr, listening, hist,
                 faulted, storeVars>>

\* a ServeHTTPC that stops on a sealing error only when the request came
\* with a good cookie
serve_IgnoreSealError(q, c) ==
  /\ rq[q].pc # "handler"
  /\ served < MaxReqs
  /\ served' = served + 1
  /\ \E gen \in (IF sessionID(c).ok THEN {""} ELSE IDS) :
       LET s == getSession(c, gen)
           e == encodeCookie(s.sessID)
           r0 == [IdleReq EXCEPT
                    !.sessID = s.sessID, !.refresh = s.refresh,
                    !.ck = IF c = NoCookie THEN "none"
                           ELSE IF Genuine(c) THEN "ok" ELSE "bad",
                    !.getErr = s.getErr,
                    !.idgen = IF sessionID(c).ok THEN 0 ELSE 1]
       IN IF s.refresh /\ e.err # NoErr /\ s.ok
          THEN /\ rq' = [rq EXCEPT ![q] =
                           [r0 EXCEPT !.pc = "done",
                                      !.status = StatusInternalServerError]]
               /\ heap' = GC(heap, data, rq')
               /\ UNCHANGED issued
          ELSE /\ rq' = MarkOverlap([rq EXCEPT ![q] =
                           [r0 EXCEPT
                              !.pc = "handler", !.sess = s.sess,
                              !.cookies =
                                 IF s.refresh
                                 THEN <<[Name |-> name, Value |-> e.v,
                                         MaxAge |-> 0]>>
                                 ELSE <<>>]], q)
               /\ heap' = GC(s.hp, data, rq')
               /\ issued' = IF s.refresh THEN issued \cup {s.sessID}
                             ELSE issued
  /\ UNCHANGED <<confVars, genVars, newVars, accVars, kind, scErr, data, values, forceErr, listening, hist,
                 faulted, storeVars>>

\* sessMiddleware.ServeHTTPC for a request with cookie c, up to the call of
\* the enclosed handler
serve(q, c) ==
  /\ rq[q].pc # "handler"
  /\ served < MaxReqs
  /\ served' = served + 1
  /\ \E gen \in (IF sessionID(c).ok THEN {""} ELSE IDS) :
       LET s == getSession(c, gen)
           e == encodeCookie(s.sessID)
           r0 == [IdleReq EXCEPT
                    !.sessID = s.sessID, !.refresh = s.refresh,
                    !.ck = IF c = NoCookie THEN "none"
                           ELSE IF Genuine(c) THEN "ok" ELSE "bad",
                    !.getErr = s.getErr,
                    !.idgen = IF sessionID(c).ok THEN 0 ELSE 1]
       IN IF s.refresh /\ e.err # NoErr
          THEN /\ rq' = [rq EXCEPT ![q] =
                           [r0 EXCEPT !.pc = "done",
                                      !.status = StatusInternalServerError]]
               /\ heap' = GC(heap, data, rq')
               /\ UNCHANGED issued
          ELSE /\ rq' = MarkOverlap([rq EXCEPT ![q] =
                           [r0 EXCEPT
                              !.pc = "handler", !.sess = s.sess,
                              !.cookies =
                                 IF s.refresh
                                 THEN <<[Name |-> name, Value |-> e.v,
                                         MaxAge |-> 0]>>
                                 ELSE <<>>]], q)
               /\ heap' = GC(s.hp, data, rq')
               /\ issued' = IF s.refresh THEN issued \cup {s.sessID}
                             ELSE issued
  /\ UNCHANGED <<confVars, genVars, newVars, accVars, kind, scErr, data, values, forceErr, listening, hist,
                 faulted, storeVars>>

\* a request with any cookie a client may send reaches ServeHTTPC
ServeHTTPC(q) == \E c \in ClientCookies : serve(q, c)

\* Set(ctxt, key, val) called by the handler
Set(q, k, v) ==
  /\ rq[q].pc = "handler"
  /\ rq[q].nops < MaxOps
  /\ heap' = [heap EXCEPT ![rq[q].sess] = MapSet(@, k, v)]
  /\ rq' = [rq EXCEPT ![q] = [@ EXCEPT !.nops = @ + 1]]
  /\ UNCHANGED <<confVars, genVars, newVars, accVars, kind, scErr, data, values, forceErr, listening, issued,
                 served, hist, faulted, storeVars>>

\* Get(ctxt, key) called by the handler
Get(q, k) ==
  /\ rq[q].pc = "handler"
  /\ rq[q].nops < MaxOps
  /\ rq' = [rq EXCEPT ![q] = [@ EXCEPT !.nops = @ + 1,
                                       !.got = MapLookup(heap[rq[q].sess], k)]]
  /\ UNCHANGED <<confVars, genVars, newVars, accVars, kind, scErr, data, values, forceErr, listening, heap, issued,
                 served, hist, faulted, storeVars>>

\* Delete(ctxt, key) called by the handler
Delete(q, k) ==
  /\ rq[q].pc = "handler"
  /\ rq[q].nops < MaxOps
  /\ heap' = [heap EXCEPT ![rq[q].sess] = MapDelete(@, k)]
  /\ rq' = [rq EXCEPT ![q] = [@ EXCEPT !.nops = @ + 1]]
  /\ UNCHANGED <<confVars, genVars, newVars, accVars, kind, scErr, data, values, forceErr, listening, issued,
                 served, hist, faulted, storeVars>>

\* a Destroy that also empties the session data of the request
Destroy_ClearData(q, withRes) ==
  /\ rq[q].pc = "handler"
  /\ rq[q].nops < MaxOps
  /\ LET d == StoreDestroy(rq[q].sessID) IN
     /\ data' = d.data
     /\ values' = d.values
  /\ rq' = [rq EXCEPT ![q] =
              [@ EXCEPT !.nops = @ + 1, !.destroyed = TRUE,
                        !.cookies = IF withRes
                                    THEN Append(@, [Name |-> "sessionmw_test",
                                                    Value |-> <<"-">>,
                                                    MaxAge |-> -1])
                                    ELSE @]]
  /\ heap' = GC([heap EXCEPT ![rq[q].sess] = EmptyMap], data', rq')
  /\ UNCHANGED <<confVars, genVars, newVars, accVars, kind, scErr, forceErr, listening,
                 issued, served, hist, faulted, storeVars>>

\* a Destroy that expires the cookie and leaves the store alone
Destroy_CookieOnly(q, withRes) ==
  /\ rq[q].pc = "handler"
  /\ rq[q].nops < MaxOps
  /\ rq' = [rq EXCEPT ![q] =
              [@ EXCEPT !.nops = @ + 1, !.destroyed = TRUE,
                        !.cookies = IF withRes
                                    THEN Append(@, [Name |-> "sessionmw_test",
                                                    Value |-> <<"-">>,
                                                    MaxAge |-> -1])
                                    ELSE @]]
  /\ UNCHANGED <<confVars, genVars, newVars, accVars, kind, scErr, data, values, heap, forceErr, listening,
                 issued, served, hist, faulted, storeVars>>

\* Destroy(ctxt, res...) called by the handler
Destroy(q, withRes) ==
  /\ rq[q].pc = "handler"
  /\ rq[q].nops < MaxOps
  /\ LET d == StoreDestroy(rq[q].sessID) IN
     /\ data' = d.data
     /\ values' = d.values
  /\ rq' = [rq EXCEPT ![q] =
              [@ EXCEPT !.nops = @ + 1, !.destroyed = TRUE,
                        !.cookies = IF withRes
                                    THEN Append(@, [Name |-> name,
                                                    Value |-> Sentinel,
                                                    MaxAge |-> -1])
                                    ELSE @]]
  /\ heap' = GC(heap, data', rq')
  /\ UNCHANGED <<confVars, genVars, newVars, accVars, kind, scErr, forceErr, listening, issued, served, hist,
                 faulted, storeVars>>

\* a ServeHTTPC that saves only the sessions its handler touched
saveSession_IfDirty(q) ==
  /\ rq[q].pc = "handler"
  /\ LET s == IF rq[q].nops > 0 THEN StoreSave(rq[q].sessID, rq[q].sess)
              ELSE [data |-> data, values |-> values, err |-> "skipped"] IN
     /\ data' = s.data
     /\ values' = s.values
     /\ hist' = IF s.err = NoErr
                THEN [hist EXCEPT ![rq[q].sessID] = @ \cup {heap[rq[q].sess]}]
                ELSE hist
  /\ rq' = [rq EXCEPT ![q] =
              [@ EXCEPT !.pc = "done", !.status = StatusOK,
                        !.flushed = IF rq[q].nops > 0 THEN @ + 1 ELSE @,
                        !.sess = Nil, !.nops = 0, !.got = NoVal]]
  /\ heap' = GC(heap, data', rq')
  /\ UNCHANGED <<confVars, genVars, newVars, accVars, kind, scErr, forceErr, listening, issued, served,
                 faulted, storeVars>>

\* ServeHTTPC once s.h.ServeHTTPC has returned: s.st.Save(sessID, sess.data),
\* its error dropped
saveSession(q) ==
  /\ rq[q].pc = "handler"
  /\ LET s == StoreSave(rq[q].sessID, rq[q].sess) IN
     /\ data' = s.data
     /\ values' = s.values
     /\ hist' = IF s.err = NoErr
                THEN [hist EXCEPT ![rq[q].sessID] = @ \cup {heap[rq[q].sess]}]
                ELSE hist
  /\ rq' = [rq EXCEPT ![q] =
              [@ EXCEPT !.pc = "done", !.status = StatusOK, !.flushed = @ + 1,
                        !.sess = Nil, !.nops = 0, !.got = NoVal]]
  /\ heap' = GC(heap, data', rq')
  /\ UNCHANGED <<confVars, genVars, newVars, accVars, kind, scErr, forceErr, listening, issued, served, faulted,
                 storeVars>>

\* the redis server starts or stops failing its commands (redisHandler.forceErr)
SetForceErr ==
  /\ kind = "redis"
  /\ listening
  /\ forceErr' = ~forceErr
  /\ faulted' = TRUE
  /\ UNCHANGED <<confVars, genVars, newVars, accVars, kind, scErr, data, values, listening, heap, rq, issued,
                 served, hist, storeVars>>

\* the redis listener is closed (l0.Close())
CloseListener ==
  /\ kind = "redis"
  /\ listening
  /\ ~forceErr
  /\ listening' = FALSE
  /\ faulted' = TRUE
  /\ UNCHANGED <<confVars, genVars, newVars, accVars, kind, scErr, data, values, forceErr, heap, rq, issued,
                 served, hist, storeVars>>

Next ==
  \/ \E q \in Reqs : ServeHTTPC(q)
  \/ \E q \in Reqs, k \in Keys, v \in Vals : Set(q, k, v)
  \/ \E q \in Reqs, k \in Keys : Get(q, k)
  \/ \E q \in Reqs, k \in Keys : Delete(q, k)
  \/ \E q \in Reqs, withRes \in BOOLEAN : Destroy(q, withRes)
  \/ \E q \in Reqs : saveSession(q)
  \/ SetForceErr
  \/ CloseListener

Spec == Init /\ [][Next]_vars

\* ------------------------------------------------------------- SpecReplay
\* one client, one request at a time: the first request comes without a
\* cookie, every later one replays the cookie the first one was given; the
\* redis service stays up
FirstCookie ==
  IF issued = {} THEN NoCookie
  ELSE <<"sealed", name, CHOOSE id \in issued : TRUE>>

Replay(q) == serve(q, FirstCookie)

NextReplay ==
  \/ Replay("q1")
  \/ \E k \in Keys, v \in Vals : Set("q1", k, v)
  \/ \E k \in Keys : Get("q1", k)
  \/ \E k \in Keys : Delete("q1", k)
  \/ \E withRes \in BOOLEAN : Destroy("q1", withRes)
  \/ saveSession("q1")

SpecReplay == Init /\ [][NextReplay]_vars

\* ------------------------------------------------------------- SpecStore
\* goroutines call Get, Save and Destroy of the store directly, as the store
\* tests do; a call takes its lock (memStore) or its pooled client
\* (RedisStore), touches the mapping, and releases and returns
Mutating(op) == op \in {"Save", "Destroy"}

\* the maps the callers pass to Save
ArgMaps ==
  <<EmptyMap,
    [k \in Keys |-> <<"string", "foo">>],
    [k \in Keys |-> <<"map[string]interface {}", "map[]">>]>>

InitStore ==
  /\ InitWith([i \in 1..NumRefs |->
                 IF i <= Len(ArgMaps) THEN ArgMaps[i] ELSE EmptyMap])
  /\ scErr = FALSE

\* ms.RLock()
RLock(c) ==
  /\ writer = {}
  /\ readers' = readers \cup {c}
  /\ writer' = writer

\* a Lock that waits for the writer only
Lock_IgnoreReaders(c) ==
  /\ writer = {}
  /\ writer' = {c}
  /\ readers' = readers

\* ms.Lock()
Lock(c) ==
  /\ writer = {}
  /\ readers = {}
  /\ writer' = {c}
  /\ readers' = readers

\* ms.RUnlock() / ms.Unlock()
Unlock(c) ==
  /\ readers' = readers \ {c}
  /\ writer' = writer \ {c}

\* another goroutine is between its lock and its unlock with an access that
\* conflicts with c's: the two accesses to the Go map are a data race
Racing(c) ==
  \E o \in Callers \ {c} :
    /\ cl[o].pc \in {"access", "release"}
    /\ Mutating(cl[o].op) \/ Mutating(cl[c].op)

\* a goroutine calls ss.Get(id), ss.Save(id, m) or ss.Destroy(id)
CallStore(c) ==
  /\ cl[c].pc = "idle"
  /\ ncalls < MaxCalls
  /\ ncalls' = ncalls + 1
  /\ \E op \in {"Get", "Save", "Destroy"}, id \in IDS :
     \E arg \in (IF op = "Save" THEN 1..Len(ArgMaps) ELSE {Nil}) :
       LET busy == \E o \in Callers \ {c} :
                     cl[o].pc # "idle" /\ Mutating(cl[o].op) /\ cl[o].id = id
       IN /\ cl' = [o \in Callers |->
                     IF o = c
                     THEN [IdleCall EXCEPT !.pc = "acquire", !.op = op,
                                           !.id = id, !.arg = arg,
                                           !.floor = done[id],
                                           !.pre = last[id]]
                     ELSE IF /\ Mutating(op) /\ cl[o].pc # "idle"
                             /\ cl[o].op = "Get" /\ cl[o].id = id
                          THEN [cl[o] EXCEPT !.disturbed = TRUE]
                          ELSE cl[o]]
          /\ last' = IF Mutating(op)
                     THEN [last EXCEPT ![id] =
                             [op |-> op,
                              sess |-> IF op = "Save" THEN heap[arg]
                                       ELSE EmptyMap,
                              by |-> c, racy |-> busy, fin |-> FALSE,
                              err |-> ""]]
                     ELSE last
  /\ UNCHANGED <<confVars, genVars, newVars, accVars, kind, scErr, data, values, forceErr, listening, heap, rq,
                 issued, served, hist, faulted, readers, writer, log, done>>

\* memStore: ms.RLock() or ms.Lock(); RedisStore: rs.Pool.Get()
acquire(c) ==
  /\ cl[c].pc = "acquire"
  /\ IF kind = "mem"
     THEN /\ IF cl[c].op = "Get" THEN RLock(c) ELSE Lock(c)
          /\ cl' = [cl EXCEPT ![c].pc = "access"]
     ELSE /\ cl' = IF listening
                   THEN [cl EXCEPT ![c].pc = "access"]
                   ELSE [cl EXCEPT ![c].pc = "release",
                                   ![c].ret = [err |-> "net.OpError",
                                               sess |-> EmptyMap]]
          /\ UNCHANGED <<readers, writer>>
  /\ UNCHANGED <<confVars, genVars, newVars, accVars, kind, scErr, data, values, forceErr, listening, heap, rq,
                 issued, served, hist, faulted, ncalls, log, done, last>>

\* what the call does to the mapping d / the keyspace vs, and what it returns
storeOp(c, d, vs) ==
  LET op == cl[c].op
      id == cl[c].id
  IN IF kind = "mem"
     THEN IF op = "Get"
          THEN LET g == memStoreGet(d, id) IN
               [data |-> d, values |-> vs, err |-> g.err,
                sess |-> IF g.err = NoErr THEN heap[g.sess] ELSE EmptyMap]
          ELSE IF op = "Save"
          THEN [data |-> memStoreSave(d, id, cl[c].arg), values |-> vs,
                err |-> NoErr, sess |-> EmptyMap]
          ELSE [data |-> memStoreDestroy(d, id), values |-> vs,
                err |-> NoErr, sess |-> EmptyMap]
     ELSE IF op = "Get"
          THEN LET g == RedisStoreGet(vs, id) IN
               [data |-> d, values |-> vs, err |-> g.err, sess |-> g.sess]
          ELSE IF op = "Save"
          THEN LET r == RedisStoreSave(vs, id, heap[cl[c].arg]) IN
               [data |-> d, values |-> r.values, err |-> r.err,
                sess |-> EmptyMap]
          ELSE LET r == RedisStoreDestroy(vs, id) IN
               [data |-> d, values |-> r.values, err |-> r.err,
                sess |-> EmptyMap]

\* the access to ms.data under the lock / the redis command and its reply; an
\* access to ms.data that races with another may also be lost or wreck the map
access(c) ==
  /\ cl[c].pc = "access"
  /\ LET r == storeOp(c, data, values)
         id == cl[c].id
         wrote == Mutating(cl[c].op) /\ r.err = NoErr
     IN /\ values' = r.values
        /\ data' \in (IF kind = "mem" /\ Racing(c) /\ Mutating(cl[c].op)
                      THEN {r.data, data, EmptyMap} ELSE {r.data})
        /\ \E ret \in (IF kind = "mem" /\ Racing(c) /\ cl[c].op = "Get"
                        THEN {[err |-> r.err, sess |-> r.sess],
                              [err |-> ErrSessionNotFound, sess |-> EmptyMap]}
                        ELSE {[err |-> r.err, sess |-> r.sess]}) :
             cl' = [cl EXCEPT ![c].pc = "release", ![c].ret = ret,
                              ![c].hi = Len(log[id]),
                              ![c].ver = IF wrote THEN Len(log[id]) + 1 ELSE 0]
        /\ log' = IF wrote
                  THEN [log EXCEPT ![id] =
                          Append(@, [op |-> cl[c].op,
                                     sess |-> IF cl[c].op = "Save"
                                              THEN heap[cl[c].arg]
                                              ELSE EmptyMap])]
                  ELSE log
  /\ UNCHANGED <<confVars, genVars, newVars, accVars, kind, scErr, forceErr, listening, heap, rq, issued, served,
                 hist, faulted, readers, writer, ncalls, done, last>>

\* memStore: the unlock; both: the call returns
release(c) ==
  /\ cl[c].pc = "release"
  /\ IF kind = "mem" THEN Unlock(c) ELSE UNCHANGED <<readers, writer>>
  /\ cl' = [cl EXCEPT ![c].pc = "idle"]
  /\ done' = IF cl[c].ver > done[cl[c].id]
             THEN [done EXCEPT ![cl[c].id] = cl[c].ver] ELSE done
  /\ last' = IF Mutating(cl[c].op) /\ last[cl[c].id].by = c
             THEN [last EXCEPT ![cl[c].id].fin = TRUE,
                               ![cl[c].id].err = cl[c].ret.err]
             ELSE last
  /\ UNCHANGED <<confVars, genVars, newVars, accVars, kind, scErr, data, values, forceErr, listening, heap, rq,
                 issued, served, hist, faulted, ncalls, log>>

NextStore ==
  \/ \E c \in Callers : CallStore(c)
  \/ \E c \in Callers : acquire(c)
  \/ \E c \in Callers : access(c)
  \/ \E c \in Callers : release(c)
  \/ SetForceErr
  \/ CloseListener

SpecStore == InitStore /\ [][NextStore]_vars

\* ------------------------------------------------------------- SpecMem
\* the goroutines of SpecStore against the in-memory store, scheduled fairly:
\* a goroutine that can run does run, and a goroutine blocked in ms.RLock()
\* or ms.Lock() is woken once the lock is free
InitMem ==
  /\ InitStore
  /\ kind = "mem"

NextMem ==
  \/ \E c \in Callers : CallStore(c)
  \/ \E c \in Callers : acquire(c)
  \/ \E c \in Callers : access(c)
  \/ \E c \in Callers : release(c)

FairMem ==
  \A c \in Callers :
    WF_vars(acquire(c)) /\ WF_vars(access(c)) /\ WF_vars(release(c))

SpecMem == InitMem /\ [][NextMem]_vars /\ FairMem

\* ------------------------------------------------------------- SpecAcc
\* one request is in its handler; goroutines of the handler call Set, Get and
\* Delete on its context. The context holds the session struct by value, and
\* every accessor takes it out with ctxt.Value(sessionContextKey).(session):
\* a copy of the struct, mutex included, whose data field is the same map
SessRef == 1

InitAcc ==
  /\ Init
  /\ kind = "mem"
  /\ scErr = FALSE

\* sess := ctxt.Value(sessionContextKey).(session) in Set, Get or Delete
CallAccessor(g) ==
  /\ go[g].pc = "idle"
  /\ nacc < MaxAcc
  /\ nacc' = nacc + 1
  /\ \E op \in {"Set", "Get", "Delete"}, k \in Keys :
     \E v \in (IF op = "Set" THEN Vals ELSE {<<"", "">>}) :
       go' = [go EXCEPT ![g] = [IdleGo EXCEPT !.pc = "lock", !.op = op,
                                              !.key = k, !.val = v,
                                              !.mu = ctxMu]]
  /\ UNCHANGED <<confVars, genVars, newVars, kind, scErr, data, values, forceErr, listening, heap, rq,
                 issued, served, hist, faulted, storeVars, ctxMu>>

\* sess.Lock() / sess.RLock() on the goroutine's copy of the mutex
sessLock(g) ==
  /\ go[g].pc = "lock"
  /\ ~go[g].mu.w
  /\ go[g].op # "Get" => go[g].mu.r = 0
  /\ go' = [go EXCEPT ![g].pc = "access",
                      ![g].mu = IF go[g].op = "Get"
                                THEN [@ EXCEPT !.r = @ + 1]
                                ELSE [@ EXCEPT !.w = TRUE]]
  /\ UNCHANGED <<confVars, genVars, newVars, kind, scErr, data, values, forceErr, listening, heap, rq,
                 issued, served, hist, faulted, storeVars, ctxMu, nacc>>

\* the goroutine is between its Lock/RLock and its Unlock/RUnlock
InCS(g) == go[g].pc \in {"access", "unlock"}

\* another goroutine is in its critical section with a conflicting access to
\* the same map: a data race on the Go map
RacingAcc(g) ==
  \E h \in Gs \ {g} : InCS(h) /\ (go[h].op # "Get" \/ go[g].op # "Get")

\* sess.data[key] = val / val, ok := sess.data[key] / delete(sess.data, key);
\* an access that races may be lost or read nothing
sessAccess(g) ==
  /\ go[g].pc = "access"
  /\ LET m == heap[SessRef]
         w == IF go[g].op = "Set" THEN MapSet(m, go[g].key, go[g].val)
              ELSE IF go[g].op = "Delete" THEN MapDelete(m, go[g].key)
              ELSE m
         r == IF go[g].op = "Get" THEN MapLookup(m, go[g].key) ELSE NoVal
     IN /\ \E m2 \in (IF RacingAcc(g) THEN {w, m} ELSE {w}) :
             heap' = [heap EXCEPT ![SessRef] = m2]
        /\ \E r2 \in (IF RacingAcc(g) THEN {r, NoVal} ELSE {r}) :
             go' = [go EXCEPT ![g].pc = "unlock", ![g].got = r2]
  /\ UNCHANGED <<confVars, genVars, newVars, kind, scErr, data, values, forceErr, listening, rq, issued,
                 served, hist, faulted, storeVars, ctxMu, nacc>>

\* sess.Unlock() / sess.RUnlock() on the copy, and the accessor returns
sessUnlock(g) ==
  /\ go[g].pc = "unlock"
  /\ go' = [go EXCEPT ![g].pc = "idle", ![g].mu = Unlocked]
  /\ UNCHANGED <<confVars, genVars, newVars, kind, scErr, data, values, forceErr, listening, heap, rq,
                 issued, served, hist, faulted, storeVars, ctxMu, nacc>>

NextAcc ==
  \/ \E g \in Gs : CallAccessor(g)
  \/ \E g \in Gs : sessLock(g)
  \/ \E g \in Gs : sessAccess(g)
  \/ \E g \in Gs : sessUnlock(g)

SpecAcc == InitAcc /\ [][NextAcc]_vars

\* ------------------------------------------------------------- SpecNew
\* redisstore.New is called with URLs and key prefixes while the redis
\* server listens or has closed its listener. A URL is its sequence of
\* characters.
URL_Malformed ==
  <<":", ",", "/">>
URL_Http ==
  <<"h", "t", "t", "p", ":", "/", "/", "g", "o", "o", "g", "l", "e", ".",
    "c", "o", "m", "/">>
URL_NoScheme ==
  <<"l", "o", "c", "a", "l", "h", "o", "s", "t">>
URL_Nothing ==
  <<"r", "e", "d", "i", "s", ":", "/", "/", "l", "o", "c", "a", "l", "h",
    "o", "s", "t", ":", "0">>
URL_Server ==
  <<"r", "e", "d", "i", "s", ":", "/", "/", "1", "2", "7", ".", "0", ".",
    "0", ".", "1", ":", "6", "3", "7", "9">>
URL_ServerUpper ==
  <<"R", "E", "D", "I", "S", ":", "/", "/", "1", "2", "7", ".", "0", ".",
    "0", ".", "1", ":", "6", "3", "7", "9">>
URL_Rediss ==
  <<"r", "e", "d", "i", "s", "s", ":", "/", "/", "1", "2", "7", ".", "0",
    ".", "0", ".", "1", ":", "6", "3", "7", "9">>

URLs ==
  {URL_Malformed, URL_Http, URL_NoScheme, URL_Nothing, URL_Server,
   URL_ServerUpper, URL_Rediss}

\* the address the redis server listens on
ServerAddr ==
  <<"1", "2", "7", ".", "0", ".", "0", ".", "1", ":", "6", "3", "7", "9">>

LowerLetters ==
  {"a", "b", "c", "d", "e", "f", "g", "h", "i", "j", "k", "l", "m", "n", "o",
   "p", "q", "r", "s", "t", "u", "v", "w", "x", "y", "z"}
UpperLetters == {"R", "E", "D", "I", "S"}
Digits == {"0", "1", "2", "3", "4", "5", "6", "7", "8", "9"}

\* strings.ToLower on one character
ToLower(c) ==
  IF c \in UpperLetters
  THEN ("R" :> "r" @@ "E" :> "e" @@ "D" :> "d" @@ "I" :> "i" @@ "S" :> "s")[c]
  ELSE c

\* rawURL[from:]
Tail_(u, from) == SubSeq(u, from, Len(u))

\* url.getScheme: the loop over rawURL from index i
RECURSIVE getScheme(_, _)
getScheme(u, i) ==
  IF i > Len(u) THEN [scheme |-> <<>>, rest |-> u, err |-> NoErr]
  ELSE LET c == u[i] IN
       IF c \in LowerLetters \cup UpperLetters THEN getScheme(u, i + 1)
       ELSE IF c \in Digits \cup {"+", "-", "."}
       THEN IF i = 1 THEN [scheme |-> <<>>, rest |-> u, err |-> NoErr]
            ELSE getScheme(u, i + 1)
       ELSE IF c = ":"
       THEN IF i = 1
            THEN [scheme |-> <<>>, rest |-> <<>>,
                  err |-> "missing protocol scheme"]
            ELSE [scheme |-> SubSeq(u, 1, i - 1), rest |-> Tail_(u, i + 1),
                  err |-> NoErr]
       ELSE [scheme |-> <<>>, rest |-> u, err |-> NoErr]

\* the index of the first "/" of r at or after i, Len(r) + 1 when there is none
RECURSIVE slashFrom(_, _)
slashFrom(r, i) ==
  IF i > Len(r) \/ r[i] = "/" THEN i ELSE slashFrom(r, i + 1)

\* a Parse that takes every string for a URL
urlParse_Lenient(u) ==
  LET g == getScheme(u, 1)
      r == g.rest
      auth == Len(r) >= 2 /\ r[1] = "/" /\ r[2] = "/"
  IN [err |-> NoErr,
      Scheme |-> [i \in 1..Len(g.scheme) |-> ToLower(g.scheme[i])],
      Host |-> IF auth THEN SubSeq(r, 3, slashFrom(r, 3) - 1) ELSE <<>>]

\* url.Parse: the scheme in lower case, and the host of a "//" authority
urlParse(u) ==
  LET g == getScheme(u, 1) IN
  IF g.err # NoErr THEN [err |-> "url.Error", Scheme |-> <<>>, Host |-> <<>>]
  ELSE LET r == g.rest
           auth == Len(r) >= 2 /\ r[1] = "/" /\ r[2] = "/"
       IN [err |-> NoErr,
           Scheme |-> [i \in 1..Len(g.scheme) |-> ToLower(g.scheme[i])],
           Host |-> IF auth THEN SubSeq(r, 3, slashFrom(r, 3) - 1) ELSE <<>>]

\* a pool that opens no connection until one is asked for
NewPool_Lazy(addr) == [err |-> NoErr, conns |-> 0]

\* pool.NewPool("tcp", addr, 1): the pool opens its connection when it is
\* made, and the dial succeeds when the server listens on addr
NewPool(addr) ==
  IF listening /\ addr = ServerAddr
  THEN [err |-> NoErr, conns |-> 1]
  ELSE [err |-> "net.OpError", conns |-> 0]

\* the key prefixes New is called with: none, or one
KeyPrefixArgs == {<<>>, <<"myprefix_">>}

\* redisstore.New(redisURL, keyPrefix...)
New(redisURL, keyPrefix) ==
  /\ nnew < MaxNew
  /\ nnew' = nnew + 1
  /\ LET keyPrefixVal == IF Len(keyPrefix) > 0 THEN keyPrefix[1]
                         ELSE DefaultKeyPrefix
         u == urlParse(redisURL)
         p == NewPool(u.Host)
     IN IF u.err # NoErr
        THEN /\ ctor' = [url |-> redisURL, err |-> u.err, rs |-> <<>>]
             /\ dials' = dials
        ELSE IF u.Scheme # <<"r", "e", "d", "i", "s">>
        THEN /\ ctor' = [url |-> redisURL, err |-> ErrInvalidScheme,
                         rs |-> <<>>]
             /\ dials' = dials
        ELSE /\ dials' = dials + 1
             /\ ctor' = IF p.err # NoErr
                        THEN [url |-> redisURL, err |-> p.err, rs |-> <<>>]
                        ELSE [url |-> redisURL, err |-> NoErr,
                              rs |-> <<[KeyPrefix |-> keyPrefixVal,
                                       Pool |-> p.conns]>>]
  /\ UNCHANGED <<confVars, genVars, accVars, kind, scErr, data, values, forceErr,
                 listening, heap, rq, issued, served, hist, faulted, storeVars>>

InitNew ==
  /\ Init
  /\ kind = "redis"
  /\ scErr = FALSE

NextNew ==
  \/ \E redisURL \in URLs, keyPrefix \in KeyPrefixArgs :
       New(redisURL, keyPrefix)
  \/ CloseListener

SpecNew == InitNew /\ [][NextNew]_vars

\* ------------------------------------------------------------- SpecGen
\* defaultIDGen is called and the clock advances between the calls. The
\* clock counts nanoseconds from the reading of the first call.
\* baseconv's 62 digits; the first ten are the decimal digits
Digits62 ==
  <<"0", "1", "2", "3", "4", "5", "6", "7", "8", "9", "A", "B", "C", "D",
    "E", "F", "G", "H", "I", "J", "K", "L", "M", "N", "O", "P", "Q", "R",
    "S", "T", "U", "V", "W", "X", "Y", "Z", "a", "b", "c", "d", "e", "f",
    "g", "h", "i", "j", "k", "l", "m", "n", "o", "p", "q", "r", "s", "t",
    "u", "v", "w", "x", "y", "z">>

\* a AND b and a OR b on the low w bits
RECURSIVE BitAnd(_, _, _)
BitAnd(a, b, w) ==
  IF w = 0 THEN 0
  ELSE (IF a % 2 = 1 /\ b % 2 = 1 THEN 1 ELSE 0)
         + 2 * BitAnd(a \div 2, b \div 2, w - 1)

RECURSIVE BitOr(_, _, _)
BitOr(a, b, w) ==
  IF w = 0 THEN 0
  ELSE (IF a % 2 = 1 \/ b % 2 = 1 THEN 1 ELSE 0)
         + 2 * BitOr(a \div 2, b \div 2, w - 1)

RECURSIVE Pow2(_)
Pow2(w) == IF w = 0 THEN 1 ELSE 2 * Pow2(w - 1)

\* 0xffffffffffffffc0 on the bits the clock of the model uses
Mask == Pow2(ClockBits) - Pow2(6)

\* the digits of n in the given base, most significant first
RECURSIVE ToDigits(_, _)
ToDigits(n, base) ==
  IF n < base THEN <<Digits62[n + 1]>>
  ELSE Append(ToDigits(n \div base, base), Digits62[(n % base) + 1])

\* the value of the digit c
DigitVal(c) == (CHOOSE i \in 1..Len(Digits62) : Digits62[i] = c) - 1

\* the number the digit string str stands for in the given base
RECURSIVE FromDigits(_, _)
FromDigits(str, base) ==
  IF str = <<>> THEN 0
  ELSE FromDigits(SubSeq(str, 1, Len(str) - 1), base) * base
         + DigitVal(str[Len(str)])

\* fmt.Sprintf("%d", n)
Sprintf_d(n) == ToDigits(n, 10)

\* baseconv.Encode62 / Decode62: decimal string to base 62 string and back
Encode62(dec) == ToDigits(FromDigits(dec, 10), 62)
Decode62(str) == ToDigits(FromDigits(str, 62), 10)

\* strconv.ParseUint(s, 10, 64)
ParseUint(dec) == FromDigits(dec, 10)

\* the values rand.Intn(1024) may return
RandInts == 0..1023

\* defaultIDGen with the clock at t and rand.Intn(1024) returning r
IDOf(t, r) ==
  LET n == BitOr(BitAnd(t, Mask, ClockBits), r, ClockBits)
  IN Encode62(Sprintf_d(n))

\* a call of defaultIDGen; the calls are made one after another and the clock
\* has moved on since the call before
defaultIDGen ==
  /\ Len(gens) < MaxGens
  /\ gens # <<>> => gens[Len(gens)].t < now
  /\ \E r \in RandInts :
       gens' = Append(gens, [t |-> now, id |-> IDOf(now, r)])
  /\ UNCHANGED <<confVars, now, nticks, newVars, accVars, kind, scErr, data, values,
                 forceErr, listening, heap, rq, issued, served, hist, faulted,
                 storeVars>>

\* the steps by which the clock advances between calls: the 64 ns that the
\* mask of defaultIDGen clears
ClockSteps == {Pow2(6)}

\* time passes between two calls
Tick ==
  /\ gens # <<>>
  /\ Len(gens) < MaxGens
  /\ nticks < MaxTicks
  /\ nticks' = nticks + 1
  /\ \E d \in ClockSteps : now' = now + d
  /\ now' < Pow2(ClockBits)
  /\ UNCHANGED <<confVars, gens, newVars, accVars, kind, scErr, data, values, forceErr,
                 listening, heap, rq, issued, served, hist, faulted,
                 storeVars>>

InitGen ==
  /\ Init
  /\ kind = "mem"
  /\ scErr = FALSE

NextGen ==
  \/ defaultIDGen
  \/ Tick

SpecGen == InitGen /\ [][NextGen]_vars

\* ------------------------------------------------------------- SpecConf
\* Config.Handler is called with configurations; "" stands for a field that
\* is not set (a nil Store, a nil IDFn)
Configs ==
  [Secret : {"", "LymWKG0UvJFCiXLHdeYJTR1xaAcRvrf7"},
   BlockSecret : {"", "NxyECgzxiYdMhMbsBrUcAAbyBuqKDrpp", "short"},
   Store : {"", "mem", "redis"},
   Name : {"", "sessionmw_test"},
   IDFn : {"", "custom"}]

\* securecookie.New(hashKey, blockKey): the codec keeps an error when the
\* block key is not an AES key
securecookieNew(hashKey, blockKey) == Len(blockKey) \notin {16, 24, 32}

\* a Handler that takes a Config without a Store
Handler_NoStoreCheck(c) ==
  /\ nconf < MaxConf
  /\ nconf' = nconf + 1
  /\ mw' =
       IF c.Secret = ""
       THEN [NoHandler EXCEPT
               !.conf = c,
               !.panic = "sessionmw config Secret cannot be empty string"]
       ELSE IF c.BlockSecret = ""
       THEN [NoHandler EXCEPT
               !.conf = c,
               !.panic = "sessionmw config BlockSecret cannot be empty string"]
       ELSE [conf |-> c, panic |-> "", built |-> TRUE,
             name |-> IF c.Name = "" THEN "SESSID" ELSE c.Name,
             idFn |-> IF c.IDFn # "" THEN c.IDFn ELSE "defaultIDGen",
             st |-> c.Store,
             scErr |-> securecookieNew(c.Secret, c.BlockSecret)]
  /\ UNCHANGED <<genVars, newVars, accVars, kind, scErr, data, values,
                 forceErr, listening, heap, rq, issued, served, hist, faulted,
                 storeVars>>

\* Config.Handler(h)
Handler(c) ==
  /\ nconf < MaxConf
  /\ nconf' = nconf + 1
  /\ mw' =
       IF c.Secret = ""
       THEN [NoHandler EXCEPT
               !.conf = c,
               !.panic = "sessionmw config Secret cannot be empty string"]
       ELSE IF c.BlockSecret = ""
       THEN [NoHandler EXCEPT
               !.conf = c,
               !.panic = "sessionmw config BlockSecret cannot be empty string"]
       ELSE IF c.Store = ""
       THEN [NoHandler EXCEPT
               !.conf = c,
               !.panic = "sessionmw config Store was not provided"]
       ELSE [conf |-> c, panic |-> "", built |-> TRUE,
             name |-> IF c.Name = "" THEN DefaultCookieName ELSE c.Name,
             idFn |-> IF c.IDFn # "" THEN c.IDFn ELSE "defaultIDGen",
             st |-> c.Store,
             scErr |-> securecookieNew(c.Secret, c.BlockSecret)]
  /\ UNCHANGED <<genVars, newVars, accVars, kind, scErr, data, values,
                 forceErr, listening, heap, rq, issued, served, hist, faulted,
                 storeVars>>

InitConf ==
  /\ Init
  /\ kind = "mem"
  /\ scErr = FALSE

NextConf == \E c \in Configs : Handler(c)

SpecConf == InitConf /\ [][NextConf]_vars

\* ------------------------------------------------------------- claims
\* the data of the record the store holds for id
RecordOf(id) ==
  IF kind = "mem" THEN heap[data[id]] ELSE gobDecode(values[KeyPrefix \o id])

SealedCookie(id) == [Name |-> name, Value |-> <<"sealed", name, id>>, MaxAge |-> 0]

BackendErr(e) == e \notin {"", NoErr, ErrSessionNotFound}

\* the call of goroutine c has returned
Returned(c, op) == cl[c].pc = "idle" /\ cl[c].op = op

\* what Get answers when the v-th write to id is the last one applied
Answers(ret, id, v) ==
  IF v = 0 \/ log[id][v].op = "Destroy"
  THEN ret.err = ErrSessionNotFound
  ELSE ret.err = NoErr /\ ret.sess = log[id][v].sess

\* C1: a Get issued after Save(id, d) has returned, with no other Save or
\* Destroy issued for id before the Get returns and the service up, returns d
\* and no error, on either store.
C1_SaveGetRoundTrip ==
  \A c \in Callers :
    (/\ Returned(c, "Get") /\ ~cl[c].disturbed /\ ~faulted
     /\ cl[c].pre.op = "Save" /\ cl[c].pre.fin /\ ~cl[c].pre.racy)
    => (cl[c].ret.err = NoErr /\ cl[c].ret.sess = cl[c].pre.sess)

\* C7: a Get that returns an answer returns the data of a write to its id
\* that is no older than the last write that had returned when the Get was
\* issued: the data of that Save or of a later one, NotFound for a Destroy.
C7_Linearizable ==
  \A c \in Callers :
    (Returned(c, "Get") /\ cl[c].ret.err \in {NoErr, ErrSessionNotFound})
    => \E v \in cl[c].floor .. cl[c].hi : Answers(cl[c].ret, cl[c].id, v)

\* C7 witness: a Get issued after a second write to its id had returned has
\* returned data while another goroutine was inside a Store call
C7_Witness ==
  \E c \in Callers :
    /\ Returned(c, "Get") /\ cl[c].ret.err = NoErr /\ cl[c].floor >= 2
    /\ \E o \in Callers \ {c} : cl[o].pc # "idle"

\* the last Save or Destroy issued for id has returned without error and ran
\* alone on its id
Settled(id) ==
  last[id].op # "" /\ last[id].fin /\ ~last[id].racy /\ last[id].err = NoErr

\* C8: when the calls that overlap work on distinct ids, each id's record is
\* what the last Save or Destroy issued for that id left: the saved data, or
\* no record; ids never written have no record.
C8_NoCrossIdInterference ==
  \A id \in IDS :
    /\ Settled(id) /\ last[id].op = "Save"
         => id \in StoreIds /\ RecordOf(id) = last[id].sess
    /\ Settled(id) /\ last[id].op = "Destroy" => id \notin StoreIds
    /\ last[id].op = "" => id \notin StoreIds

\* C8 witness: two Saves of distinct ids overlapped, both returned, and the
\* store holds exactly these two records
C8_Witness ==
  /\ \A id \in IDS : Settled(id) /\ last[id].op = "Save"
  /\ \E a \in IDS, b \in IDS : a # b /\ last[a].by # last[b].by
  /\ Cardinality(StoreIds) = Cardinality(IDS)
  /\ \E c \in Callers : cl[c].pc = "idle" /\ cl[c].ver = 1 /\ cl[c].hi = 0
                         /\ cl[c].floor = 0

\* C2: a request whose handler called Destroy makes no Save: once Destroy
\* was called in a request, that request never flushes its session.
C2_DestroyBypassesSave ==
  \A q \in Reqs : rq[q].destroyed => rq[q].flushed = 0

\* C3: when the cookie is valid and Store.Get fails with an error other than
\* NotFound, the request ends with status 500, its handler is not run and
\* nothing is saved.
C3_GetErrorFailsRequest ==
  \A q \in Reqs :
    BackendErr(rq[q].getErr) =>
      /\ rq[q].pc = "done"
      /\ rq[q].status = StatusInternalServerError
      /\ rq[q].flushed = 0

\* C4: no two goroutines are in the critical section of an accessor of the
\* same session at once unless both are in Get.
C4_AccessorsMutuallyExclusive ==
  \A g \in Gs : \A h \in Gs \ {g} :
    (InCS(g) /\ InCS(h)) => (go[g].op = "Get" /\ go[h].op = "Get")

\* C5: while two requests are being handled, a Set or Delete made by one
\* leaves what the other's Get reads unchanged.
C5_SessionDataNotShared ==
  [][\A q \in Reqs : \A p \in Reqs \ {q} :
       (/\ rq[q].pc = "handler"
        /\ rq[p].pc = "handler"
        /\ \/ \E k \in Keys, v \in Vals : Set(q, k, v)
           \/ \E k \in Keys : Delete(q, k))
       => heap'[rq[p].sess] = heap[rq[p].sess]]_vars

\* C6: the data a Store.Get returns to getSession equals the data passed to
\* some Save for that id that had returned without error.
C6_GetObservesCompletedSave ==
  [][\A q \in Reqs :
       (ServeHTTPC(q) /\ rq'[q].pc = "handler" /\ rq'[q].getErr = NoErr)
       => heap'[rq'[q].sess] \in hist[rq'[q].sessID]]_vars

C10_ReplaySeesEarlierValues ==
  /\ [](issued # {} => StoreIds \subseteq issued /\ Cardinality(issued) = 1)
  /\ [][(Replay("q1") /\ issued # {})
        => (/\ rq'["q1"].sessID \in issued
            /\ rq'["q1"].pc = "handler"
            /\ rq'["q1"].sessID \in StoreIds =>
                 heap'[rq'["q1"].sess] = RecordOf(rq'["q1"].sessID))]_vars
  /\ [][saveSession("q1")
        => (/\ StoreIds' = {rq["q1"].sessID}
            /\ RecordOf(rq["q1"].sessID)' = heap[rq["q1"].sess])]_vars

\* C11 as stated: a request whose cookie does not verify or decode makes no
\* Store.Get, takes a generated id and empty data, and is issued a new cookie
\* sealing that id.
C11_InvalidCookieIsAbsent ==
  \A q \in Reqs :
    (rq[q].ck = "bad" /\ rq[q].pc # "idle") =>
      /\ rq[q].getErr = ""
      /\ rq[q].refresh
      /\ rq[q].sessID \in IDS
      /\ rq[q].cookies # <<>>
      /\ rq[q].cookies[1] = SealedCookie(rq[q].sessID)
      /\ (rq[q].pc = "handler" /\ rq[q].nops = 0
            => heap[rq[q].sess] = EmptyMap)

\* C11 amended: a request whose cookie does not verify or decode is handled
\* as one without a cookie: no Store.Get is made, the id is a generated one
\* and the data empty; if sealing the id fails the request ends with 500, no
\* cookie and no Save; otherwise its first Set-Cookie seals the generated id
\* and its one Save is made under that id.
C11_InvalidCookieIsAbsentSealed ==
  /\ [](\A q \in Reqs :
          (rq[q].ck = "bad" /\ rq[q].pc # "idle") =>
            /\ rq[q].getErr = ""
            /\ rq[q].refresh
            /\ rq[q].sessID \in IDS
            /\ (rq[q].pc = "handler" /\ rq[q].nops = 0
                  => heap[rq[q].sess] = EmptyMap)
            /\ scErr => (/\ rq[q].pc = "done"
                         /\ rq[q].status = StatusInternalServerError
                         /\ rq[q].cookies = <<>>
                         /\ rq[q].flushed = 0)
            /\ ~scErr => (/\ rq[q].cookies # <<>>
                          /\ rq[q].cookies[1] = SealedCookie(rq[q].sessID)
                          /\ (rq[q].pc = "done" =>
                                rq[q].flushed = 1 /\ rq[q].status = StatusOK)))
  /\ [][\A q \in Reqs :
         (saveSession(q) /\ rq[q].ck = "bad")
         => StoreIds' \ StoreIds \subseteq {rq[q].sessID}]_vars

\* C11 witness: a request that came with a cookie the middleware never sealed
\* has completed with a new sealed cookie and a record under its new id
C11_Witness ==
  \E q \in Reqs :
    /\ rq[q].ck = "bad" /\ rq[q].pc = "done" /\ rq[q].status = StatusOK
    /\ rq[q].cookies # <<>> /\ rq[q].cookies[1] = SealedCookie(rq[q].sessID)
    /\ rq[q].sessID \in StoreIds

\* the redis service answers commands (memStore is always up)
ServiceUp == kind = "mem" \/ (listening /\ ~forceErr)

\* C12: a request with a valid cookie whose id Store.Get reports as not found
\* goes on as a fresh session under the presented id: the handler starts with
\* empty data and a first Set-Cookie sealing that id, the client gets no
\* error, and with the store in service the request's end leaves the session
\* data as the record of the presented id.
C12_NotFoundReusesId ==
  /\ [][\A q \in Reqs : \A c \in ClientCookies :
         (/\ serve(q, c) /\ Genuine(c)
          /\ rq'[q].getErr = ErrSessionNotFound)
         => (/\ rq'[q].sessID = c[3]
             /\ rq'[q].pc = "handler"
             /\ rq'[q].refresh
             /\ heap'[rq'[q].sess] = EmptyMap
             /\ rq'[q].cookies = <<SealedCookie(c[3])>>)]_vars
  /\ [][\A q \in Reqs :
         (/\ saveSession(q) /\ rq[q].ck = "ok"
          /\ rq[q].getErr = ErrSessionNotFound /\ ServiceUp)
         => (/\ rq'[q].status = StatusOK
             /\ rq[q].sessID \in StoreIds'
             /\ RecordOf(rq[q].sessID)' = heap[rq[q].sess])]_vars

\* C13: a request whose handler ran and returned without calling Destroy has
\* made no Save while its handler ran and exactly one when it is done, and
\* the step in which its handler returns leaves the store as
\* Save(session id, session data as the handler left it) leaves it.
C13_SaveOnceAfterHandler ==
  /\ [](\A q \in Reqs :
          ~rq[q].destroyed =>
            /\ rq[q].pc = "handler" => rq[q].flushed = 0
            /\ (rq[q].pc = "done" /\ rq[q].status = StatusOK)
                 => rq[q].flushed = 1)
  /\ [][\A q \in Reqs :
         (rq[q].pc = "handler" /\ rq'[q].pc = "done" /\ ~rq[q].destroyed)
         => LET s == StoreSave(rq[q].sessID, rq[q].sess) IN
            /\ rq'[q].flushed = 1
            /\ data' = s.data
            /\ values' = s.values]_vars

\* C13 witness: a request whose handler made no call has completed and its
\* empty session data is the record of its id
C13_Witness ==
  \E q \in Reqs :
    /\ rq[q].pc = "done" /\ rq[q].status = StatusOK /\ ~rq[q].destroyed
    /\ rq[q].flushed = 1
    /\ rq[q].sessID \in StoreIds
    /\ RecordOf(rq[q].sessID) = EmptyMap

\* C14: with the store in service, every Destroy returns no error, whether
\* its id has a record, never had one or was destroyed before; and a Get
\* issued after a Destroy of its id has returned, with no Save or Destroy of
\* the id issued since, returns NotFound.
C14_DestroyIdempotent ==
  \A c \in Callers :
    /\ (Returned(c, "Destroy") /\ ~faulted) => cl[c].ret.err = NoErr
    /\ (/\ Returned(c, "Get") /\ ~cl[c].disturbed /\ ~faulted
        /\ cl[c].pre.op = "Destroy" /\ cl[c].pre.fin /\ ~cl[c].pre.racy)
       => cl[c].ret.err = ErrSessionNotFound

\* C14 witness: an id that never had a record was destroyed twice, both
\* calls returned no error, and a Get issued after them returned NotFound
C14_Witness ==
  \E c \in Callers :
    /\ Returned(c, "Get") /\ ~faulted /\ ~cl[c].disturbed
    /\ cl[c].pre.op = "Destroy" /\ cl[c].pre.fin /\ cl[c].pre.err = NoErr
    /\ cl[c].ret.err = ErrSessionNotFound
    /\ cl[c].hi = 2
    /\ \A i \in 1..2 : log[cl[c].id][i].op = "Destroy"

\* C15: a Get never answers NotFound for an id that has a record at the
\* instant of its read, and with the store in service answers NotFound for
\* every id that has none; so a Get of an id never written answers NotFound
\* or a backend error, a Get issued after a Save of its id returned no error
\* (and no other write of the id since) does not answer NotFound, and
\* memStore.Get returns no error but NotFound.
C15_NotFoundIffAbsent ==
  /\ [][\A c \in Callers :
         (cl[c].pc = "access" /\ cl'[c].pc = "release" /\ cl[c].op = "Get")
         => (/\ cl'[c].ret.err = ErrSessionNotFound
                  => cl[c].id \notin StoreIds
             /\ (cl[c].id \notin StoreIds /\ ServiceUp)
                  => cl'[c].ret.err = ErrSessionNotFound
             /\ cl[c].id \notin StoreIds => cl'[c].ret.err # NoErr)]_vars
  /\ [](\A c \in Callers :
          Returned(c, "Get") =>
            /\ (cl[c].pre.op = "" /\ ~cl[c].disturbed)
                 => cl[c].ret.err # NoErr
            /\ (cl[c].pre.op = "" /\ ~cl[c].disturbed /\ ~faulted)
                 => cl[c].ret.err = ErrSessionNotFound
            /\ (/\ cl[c].pre.op = "Save" /\ cl[c].pre.fin
                /\ cl[c].pre.err = NoErr /\ ~cl[c].pre.racy
                /\ ~cl[c].disturbed)
                 => cl[c].ret.err # ErrSessionNotFound
            /\ kind = "mem" => cl[c].ret.err \in {NoErr, ErrSessionNotFound})

\* C15 witness: on the redis store a Get of an id that was saved and then
\* destroyed has answered NotFound
C15_Witness ==
  \E c \in Callers :
    /\ kind = "redis" /\ Returned(c, "Get")
    /\ cl[c].ret.err = ErrSessionNotFound
    /\ Len(log[cl[c].id]) = 2
    /\ log[cl[c].id][1].op = "Save" /\ log[cl[c].id][2].op = "Destroy"
    /\ cl[c].hi = 2

\* C16: a Get issued after Save(id, d2) has returned, where an earlier Save
\* had left a different record d1 under id and no other write of id was
\* issued since, finds that the Save of d2 returned no error and returns
\* exactly d2, with no key of d1 left over.
C16_SaveReplaces ==
  \A c \in Callers :
    (/\ Returned(c, "Get") /\ ~cl[c].disturbed /\ ~faulted
     /\ cl[c].pre.op = "Save" /\ cl[c].pre.fin /\ ~cl[c].pre.racy
     /\ \E i \in 1..cl[c].hi :
          /\ log[cl[c].id][i].op = "Save"
          /\ log[cl[c].id][i].sess # cl[c].pre.sess)
    => (/\ cl[c].pre.err = NoErr
        /\ cl[c].ret.err = NoErr
        /\ cl[c].ret.sess = cl[c].pre.sess
        /\ DOMAIN cl[c].ret.sess = DOMAIN cl[c].pre.sess)

\* the cookie Destroy attaches: the configured name, the value "-" and a
\* MaxAge that is not positive
Expiring(ck) == ck.Name = name /\ ck.Value = Sentinel /\ ck.MaxAge <= 0

\* C17: the step in which a handler calls Destroy leaves the store as
\* Store.Destroy(session id) leaves it, and either attaches no cookie (no
\* response writer given) or appends one cookie with the configured name,
\* the value "-" and a non-positive MaxAge (response writer given).
C17_DestroyExpiresCookie ==
  [][\A q \in Reqs :
       (rq[q].pc = "handler" /\ ~rq[q].destroyed /\ rq'[q].destroyed)
       => LET d == StoreDestroy(rq[q].sessID) IN
          /\ data' = d.data
          /\ values' = d.values
          /\ \/ rq'[q].cookies = rq[q].cookies
             \/ \E ck \in {[Name |-> name, Value |-> Sentinel, MaxAge |-> m] :
                              m \in {-1, 0}} :
                  rq'[q].cookies = Append(rq[q].cookies, ck)
          /\ \A w \in BOOLEAN :
               Destroy(q, w) =>
                 (w <=> (/\ Len(rq'[q].cookies) = Len(rq[q].cookies) + 1
                         /\ Expiring(rq'[q].cookies[Len(rq'[q].cookies)])))]_vars

\* C17 witness: of two requests that loaded the same stored session, one has
\* called Destroy with its response writer and carries the expiring cookie,
\* the other has called Destroy without one and carries no cookie, and the
\* session has no record
C17_Witness ==
  \E q \in Reqs : \E p \in Reqs \ {q} :
    /\ rq[q].pc = "handler" /\ rq[q].destroyed
    /\ rq[q].ck = "ok" /\ rq[q].getErr = NoErr
    /\ rq[q].cookies # <<>> /\ Expiring(rq[q].cookies[Len(rq[q].cookies)])
    /\ rq[p].pc = "handler" /\ rq[p].destroyed
    /\ rq[p].ck = "ok" /\ rq[p].getErr = NoErr
    /\ rq[p].cookies = <<>>
    /\ rq[q].sessID = rq[p].sessID
    /\ rq[q].sessID \notin StoreIds

\* C18: a RedisStore call that gets its answer while the listener is closed
\* or the server fails its commands returns an error that is neither nil nor
\* NotFound, returns no session data, and leaves the keyspace of the server
\* as it was.
C18_RemoteFailureKeepsRecords ==
  [][\A c \in Callers :
       (/\ kind = "redis"
        /\ cl[c].pc \in {"acquire", "access"} /\ cl'[c].pc = "release"
        /\ (~listening \/ forceErr))
       => (/\ BackendErr(cl'[c].ret.err)
           /\ cl'[c].ret.sess = EmptyMap
           /\ values' = values)]_vars

\* C18 witness: a Destroy and a Get of a saved id have both failed with a
\* backend error and the record is still held by the server
C18_Witness ==
  /\ kind = "redis"
  /\ \E c \in Callers : \E o \in Callers \ {c} :
       /\ Returned(c, "Destroy") /\ BackendErr(cl[c].ret.err)
       /\ Returned(o, "Get") /\ BackendErr(cl[o].ret.err)
       /\ cl[o].id = cl[c].id
       /\ cl[c].id \in StoreIds

\* the URLs of the model that are well formed and have the redis scheme, and
\* those among them at whose host the server listens
RedisURLs == {URL_Nothing, URL_Server, URL_ServerUpper}
ServedURLs == {URL_Server, URL_ServerUpper}

\* C19 as stated: New for a well-formed redis URL opens no connection and
\* succeeds, also when nothing listens at the URL's host.
C19_LazyConstruction ==
  /\ dials = 0
  /\ ctor.url \in RedisURLs => (ctor.err = NoErr /\ ctor.rs # <<>>)

\* C19 amended: New for a well-formed redis URL makes the connection pool,
\* which dials the URL's host at once: with a server listening there New
\* returns a store holding the connection and no error; with nothing
\* listening New returns the transport error and no store.
C19_EagerConstruction ==
  [][(nnew' = nnew + 1 /\ ctor'.url \in RedisURLs)
     => (/\ dials' = dials + 1
         /\ (ctor'.url \in ServedURLs /\ listening)
              => (/\ ctor'.err = NoErr
                  /\ Len(ctor'.rs) = 1
                  /\ ctor'.rs[1].Pool = 1)
         /\ ~(ctor'.url \in ServedURLs /\ listening)
              => (ctor'.err = "net.OpError" /\ ctor'.rs = <<>>))]_vars

\* C19 witness: New was called with a redis URL at whose host nothing
\* listens, it dialled and returned the transport error and no store
C19_Witness ==
  /\ ctor.url = URL_Nothing /\ listening
  /\ dials = 1
  /\ ctor.err = "net.OpError" /\ ctor.rs = <<>>

\* C20: New returns a URL-parse error for a URL that does not parse and the
\* invalid-scheme error, a different one, for a URL whose scheme is not redis;
\* either way it returns no store and has tried no connection.
C20_RejectsBadURLs ==
  [][nnew' = nnew + 1
     => (/\ ctor'.url = URL_Malformed
              => (/\ ctor'.err = "url.Error" /\ ctor'.rs = <<>>
                  /\ dials' = dials)
         /\ ctor'.url \in {URL_Http, URL_NoScheme, URL_Rediss}
              => (/\ ctor'.err = ErrInvalidScheme /\ ctor'.rs = <<>>
                  /\ dials' = dials)
         /\ ctor'.err = ErrInvalidScheme => ctor'.url # URL_Malformed)]_vars

\* C20 witness: New has been called as often as the bound allows without a
\* connection being tried, the last time with a URL that does not parse
C20_Witness ==
  /\ nnew = MaxNew /\ dials = 0
  /\ ctor.url = URL_Malformed /\ ctor.err = "url.Error" /\ ctor.rs = <<>>

\* the integer the id stands for, read as TestDefaultIDGen reads it
IntOf(id) == ParseUint(Decode62(id))

\* C21: of two calls of defaultIDGen whose clock readings are 64 ns or more
\* apart, the earlier returns an id that stands for a smaller integer than
\* the id of the later, whatever the two calls draw from rand.Intn(1024).
C21_IdsOrdered ==
  \A i \in 1..Len(gens) : \A j \in 1..Len(gens) :
    (i < j /\ gens[j].t - gens[i].t >= 64)
    => IntOf(gens[i].id) < IntOf(gens[j].id)

\* C22: the step in which a handler calls Destroy leaves the request's
\* session id and session data as they were: Get reads for every key what it
\* read before the call.
C22_DestroyKeepsSessionData ==
  [][\A q \in Reqs :
       (rq[q].pc = "handler" /\ ~rq[q].destroyed /\ rq'[q].destroyed)
       => (/\ rq'[q].sessID = rq[q].sessID
           /\ rq'[q].pc = "handler"
           /\ \A k \in Keys :
                MapLookup(heap'[rq'[q].sess], k)
                  = MapLookup(heap[rq[q].sess], k))]_vars

\* C22 witness: a request that loaded a stored session holding a value has
\* called Destroy, the record is gone and the value is still in its data
C22_Witness ==
  \E q \in Reqs :
    /\ rq[q].pc = "handler" /\ rq[q].destroyed
    /\ rq[q].ck = "ok" /\ rq[q].getErr = NoErr
    /\ rq[q].sessID \notin StoreIds
    /\ \E k \in Keys : MapLookup(heap[rq[q].sess], k).ok

\* C23: a call of Config.Handler with an empty Secret, an empty BlockSecret
\* or no Store panics and makes no handler, so no request is served by it;
\* any other call makes a handler whose cookie name is the configured Name,
\* or SESSID when Name is empty, whose id generator is the configured IDFn,
\* or defaultIDGen when none is configured, and whose store is the
\* configured Store.
C23_HandlerChecksConfig ==
  /\ nconf > 0 =>
       IF mw.conf.Secret = "" \/ mw.conf.BlockSecret = "" \/ mw.conf.Store = ""
       THEN mw.panic # "" /\ ~mw.built
       ELSE /\ mw.panic = "" /\ mw.built
            /\ mw.name = (IF mw.conf.Name = "" THEN "SESSID" ELSE mw.conf.Name)
            /\ mw.idFn = (IF mw.conf.IDFn = "" THEN "defaultIDGen"
                          ELSE mw.conf.IDFn)
            /\ mw.st = mw.conf.Store
  /\ served = 0

\* C23 witness: after a call that panicked for a missing Store, a call with
\* both secrets and a store but no Name and no IDFn has made a handler named
\* SESSID that uses defaultIDGen
C23_Witness ==
  /\ nconf = 2
  /\ mw.built /\ mw.conf.Name = "" /\ mw.conf.IDFn = ""
  /\ mw.name = "SESSID" /\ mw.idFn = "defaultIDGen"

\* C24: a request that came without a cookie, with an invalid cookie, or
\* whose store lookup failed, and whose handler is invoked, has exactly one
\* Set-Cookie when the handler starts, the one sealing the session id the
\* handler sees; that cookie stays first in the response whatever the handler
\* adds, and the Save made when the handler returns is made under the same id.
C24_CookieBeforeHandler ==
  /\ [](\A q \in Reqs :
          (/\ rq[q].ck \in {"none", "bad"} \/ rq[q].getErr \notin {"", NoErr}
           /\ rq[q].pc = "handler" \/ rq[q].flushed > 0)
          => (/\ rq[q].cookies # <<>>
              /\ rq[q].cookies[1] = SealedCookie(rq[q].sessID)
              /\ (rq[q].pc = "handler" /\ rq[q].nops = 0
                    => Len(rq[q].cookies) = 1)))
  /\ [][\A q \in Reqs :
         (rq[q].pc = "handler" /\ rq'[q] # rq[q])
         => (/\ rq'[q].sessID = rq[q].sessID
             /\ rq'[q].pc = "done" =>
                  LET s == StoreSave(rq[q].cookies[1].Value[3], rq[q].sess) IN
                  (rq[q].ck \in {"none", "bad"}
                     \/ rq[q].getErr \notin {"", NoErr})
                  => data' = s.data /\ values' = s.values)]_vars

\* C24 witness: a request with a good cookie whose store lookup failed has
\* completed; its response starts with the cookie sealing its id and its
\* session data are the record of that id
C24_Witness ==
  \E q \in Reqs :
    /\ rq[q].ck = "ok" /\ rq[q].getErr \notin {"", NoErr}
    /\ rq[q].pc = "done" /\ rq[q].flushed = 1 /\ rq[q].nops = 0
    /\ rq[q].cookies # <<>>
    /\ rq[q].cookies[1] = SealedCookie(rq[q].sessID)
    /\ rq[q].sessID \in StoreIds

\* C26: a request for which sealing the session id fails ends with status
\* 500, without a Set-Cookie, without its handler having been invoked and
\* without a Save, and the step that serves it leaves the store as it was.
C26_SealFailureIs500 ==
  /\ [](\A q \in Reqs :
          (/\ rq[q].pc # "idle" /\ rq[q].refresh
           /\ encodeCookie(rq[q].sessID).err # NoErr)
          => (/\ rq[q].pc = "done"
              /\ rq[q].status = StatusInternalServerError
              /\ rq[q].cookies = <<>>
              /\ rq[q].sess = Nil /\ rq[q].nops = 0
              /\ rq[q].flushed = 0))
  /\ [][\A q \in Reqs :
         (/\ rq'[q] # rq[q] /\ rq'[q].refresh
          /\ encodeCookie(rq'[q].sessID).err # NoErr)
         => (data' = data /\ values' = values /\ hist' = hist)]_vars

\* C26 witness: with a codec that cannot seal, a request that came with a
\* cookie has ended with 500 and without a Set-Cookie, after another request
\* ended the same way, and the store holds no record
C26_Witness ==
  /\ scErr
  /\ served = 2
  /\ StoreIds = {}
  /\ \E q \in Reqs :
       /\ rq[q].ck = "bad" /\ rq[q].refresh
       /\ rq[q].pc = "done" /\ rq[q].status = StatusInternalServerError
       /\ rq[q].cookies = <<>> /\ rq[q].flushed = 0

\* C27: a request that came with a cookie the middleware issued and whose
\* id the store found makes no call of the id generator, keeps the id of the
\* cookie, and gets no Set-Cookie from the middleware: the only cookies in
\* its response are the ones its handler's Destroy calls added.
C27_FoundSessionNoCookie ==
  /\ [](\A q \in Reqs :
          (rq[q].pc # "idle" /\ rq[q].ck = "ok" /\ rq[q].getErr = NoErr)
          => (/\ ~rq[q].refresh
              /\ rq[q].idgen = 0
              /\ rq[q].sessID \in issued
              /\ rq[q].pc # "done" \/ rq[q].status = StatusOK
              /\ ~rq[q].destroyed => rq[q].cookies = <<>>
              /\ \A i \in 1..Len(rq[q].cookies) :
                   rq[q].cookies[i].Value = Sentinel))
  /\ [][\A q \in Reqs :
         (/\ rq'[q] # rq[q] /\ rq'[q].ck = "ok" /\ rq'[q].getErr = NoErr
          /\ rq'[q].pc # "idle")
         => issued' = issued]_vars

\* C27 witness: a request that came with an issued cookie and found its
\* record has completed with 200 and no Set-Cookie
C27_Witness ==
  \E q \in Reqs :
    /\ rq[q].ck = "ok" /\ rq[q].getErr = NoErr
    /\ rq[q].pc = "done" /\ rq[q].status = StatusOK
    /\ rq[q].cookies = <<>> /\ rq[q].idgen = 0
    /\ rq[q].sessID \in StoreIds

\* C28: against the remote store in service, when the handlers of two
\* requests ran at the same time with the same session id and the second of
\* them completes, the record of that id is exactly the session data of the
\* request completing, so a value only the other request Set is not in it.
C28_LastWriterWins ==
  [][\A q \in Reqs : \A p \in Reqs \ {q} :
       (/\ kind = "redis" /\ ServiceUp
        /\ rq[q].overlap /\ rq[p].overlap
        /\ rq[p].sessID = rq[q].sessID
        /\ rq[p].pc = "done" /\ rq[p].flushed = 1
        /\ rq[q].pc = "handler" /\ rq'[q].pc = "done")
       => (/\ rq[q].sessID \in StoreIds'
           /\ RecordOf(rq[q].sessID)' = heap[rq[q].sess])]_vars

\* the holders of the memStore lock and the goroutines touching ms.data agree:
\* a writer is alone, readers are together with readers only, and a goroutine
\* outside its critical section holds nothing
Exclusive ==
  /\ \A c \in Callers :
       /\ (cl[c].pc \in {"access", "release"} /\ Mutating(cl[c].op))
            => (/\ writer = {c} /\ readers = {}
                /\ \A o \in Callers \ {c} :
                     cl[o].pc \notin {"access", "release"})
       /\ (cl[c].pc \in {"access", "release"} /\ cl[c].op = "Get")
            => (/\ c \in readers /\ writer = {}
                /\ \A o \in Callers \ {c} :
                     cl[o].pc \in {"access", "release"} => cl[o].op = "Get")
       /\ cl[c].pc \in {"idle", "acquire"} => c \notin readers \cup writer
       /\ cl[c].pc = "access" => ~Racing(c)
  /\ Cardinality(writer) <= 1
  /\ writer # {} => readers = {}

\* C25: in the in-memory store a Save or Destroy touches the mapping only
\* while it holds the write lock, with no Get reading and no other Save or
\* Destroy writing; a Get reads only while it holds a read lock, which
\* several Gets may hold together; a call that has returned or not yet
\* locked holds nothing; and every call that was made returns.
C25_LockDiscipline ==
  [](Exclusive)
    /\ (\A c \in Callers : (cl[c].pc # "idle") ~> (cl[c].pc = "idle"))

\* C25 witness: two Gets hold the read lock together while all the calls of
\* the behaviour have been made, one of them a Save that has returned
C25_Witness ==
  /\ kind = "mem"
  /\ readers = Callers
  /\ \A c \in Callers : cl[c].pc = "access" /\ cl[c].op = "Get"
  /\ ncalls = MaxCalls
  /\ \E id \in IDS : last[id].op = "Save" /\ last[id].fin

====
